---- MODULE Spec2Model ----
(***************************************************************************)
(* A model of petropy/las.py: Las.__init__ reads the lines of a LAS file,  *)
(* classifies the header lines into four sections, cuts out the data       *)
(* block, rebuilds wrapped rows, casts the table to floats and resolves    *)
(* the unique well identifier and the null value from the well section.    *)
(*                                                                         *)
(* A Python str is a sequence of one-character strings.  None, where a     *)
(* str or None is stored, is the empty sequence <<>> and a str s is <<s>>. *)
(* A cell of the row matrix is a token (never empty) or NoneCell, <<>>.    *)
(***************************************************************************)
EXTENDS Integers, Sequences, FiniteSets, TLC

\* ------------------------------------------------------------------
\* Bounds of the model
\* ------------------------------------------------------------------

\* longest file of the classifier family
MaxLines == 3

\* longest data block of the wrapped-data family
MaxData == 6

\* ------------------------------------------------------------------
\* Python str operations used by Las.__init__
\* ------------------------------------------------------------------

LowerToUpper ==
  [c \in {"a","b","c","d","e","f","g","h","i","j","k","l","m",
          "n","o","p","q","r","s","t","u","v","w","x","y","z"} |->
     CASE c = "a" -> "A" [] c = "b" -> "B" [] c = "c" -> "C" [] c = "d" -> "D"
       [] c = "e" -> "E" [] c = "f" -> "F" [] c = "g" -> "G" [] c = "h" -> "H"
       [] c = "i" -> "I" [] c = "j" -> "J" [] c = "k" -> "K" [] c = "l" -> "L"
       [] c = "m" -> "M" [] c = "n" -> "N" [] c = "o" -> "O" [] c = "p" -> "P"
       [] c = "q" -> "Q" [] c = "r" -> "R" [] c = "s" -> "S" [] c = "t" -> "T"
       [] c = "u" -> "U" [] c = "v" -> "V" [] c = "w" -> "W" [] c = "x" -> "X"
       [] c = "y" -> "Y" [] c = "z" -> "Z"]

\* str.upper()
RECURSIVE Upper(_)
Upper(s) ==
  IF s = <<>> THEN <<>>
  ELSE <<IF Head(s) \in DOMAIN LowerToUpper THEN LowerToUpper[Head(s)]
         ELSE Head(s)>> \o Upper(Tail(s))

\* sub in s
Contains(sub, s) ==
  \E k \in 0..(Len(s) - Len(sub)) : \A j \in 1..Len(sub) : s[k + j] = sub[j]

\* s.replace(c, '')
RemoveChar(s, c) == SelectSeq(s, LAMBDA x : x # c)

Whitespace == {" ", "\n", "\t", "\r"}

\* s.strip()
Strip(s) ==
  LET keep == {k \in 1..Len(s) : s[k] \notin Whitespace}
      lo   == CHOOSE k \in keep : \A m \in keep : k <= m
      hi   == CHOOSE k \in keep : \A m \in keep : m <= k
  IN  IF keep = {} THEN <<>> ELSE SubSeq(s, lo, hi)

\* the pieces of s.split(' ') that are not '' (las.py filters them out)
RECURSIVE SplitTokens(_)
SplitTokens(s) ==
  IF s = <<>> THEN <<>>
  ELSE IF Head(s) = " " THEN SplitTokens(Tail(s))
  ELSE LET stops == {k \in 1..Len(s) : s[k] = " "}
           n     == IF stops = {} THEN Len(s)
                    ELSE (CHOOSE k \in stops : \A m \in stops : k <= m) - 1
       IN  <<SubSeq(s, 1, n)>> \o SplitTokens(SubSeq(s, n + 1, Len(s)))

Digits == {"0","1","2","3","4","5","6","7","8","9"}

RECURSIVE DropLeadingZeros(_)
DropLeadingZeros(s) ==
  IF s # <<>> /\ Head(s) = "0" THEN DropLeadingZeros(Tail(s)) ELSE s

RECURSIVE DropTrailingZeros(_)
DropTrailingZeros(s) ==
  IF s # <<>> /\ s[Len(s)] = "0"
  THEN DropTrailingZeros(SubSeq(s, 1, Len(s) - 1)) ELSE s

\* float(s): <<>> when Python raises ValueError, otherwise <<x>> with x the
\* number in canonical form (sign, integer digits, fraction digits).  The
\* decimal forms [sign] digits [. digits] are modelled; the files of the
\* model hold no exponent, inf or nan spellings.
Float(s) ==
  LET t      == Strip(s)
      signed == t # <<>> /\ Head(t) \in {"+", "-"}
      body   == IF signed THEN Tail(t) ELSE t
      dots   == {k \in 1..Len(body) : body[k] = "."}
      dot    == IF dots = {} THEN Len(body) + 1 ELSE CHOOSE k \in dots : TRUE
      ip     == SubSeq(body, 1, dot - 1)
      fp     == SubSeq(body, dot + 1, Len(body))
      wellformed ==
        /\ Cardinality(dots) <= 1
        /\ \A k \in 1..Len(body) : body[k] \in Digits \cup {"."}
        /\ Len(ip) + Len(fp) > 0
      mag    == [int |-> DropLeadingZeros(ip), frac |-> DropTrailingZeros(fp)]
  IN  IF ~wellformed THEN <<>>
      ELSE <<[neg  |-> signed /\ Head(t) = "-" /\ (mag.int # <<>> \/ mag.frac # <<>>),
              int  |-> mag.int,
              frac |-> mag.frac]>>

\* the float a missing cell (None) is cast to
NaN == [neg |-> FALSE, int |-> <<"n","a","n">>, frac |-> <<>>]

\* ------------------------------------------------------------------
\* Lines and parameters
\* ------------------------------------------------------------------

\* log.Parameter: the record a header line is parsed into
Parameter(name, unit, value, des, right_value) ==
  [name |-> name, unit |-> unit, value |-> value, des |-> des,
   right_value |-> right_value]

\* A line of the file: its text, and (for a line of a header section) the
\* fields log.Parameter(line = text) reads from it.  A line with no
\* mnemonic carries the empty name.
Line(text, param) == [text |-> text, param |-> param]

NoParameter == Parameter(<<>>, <<>>, <<>>, <<>>, <<>>)

\* Parameter(line = line): <<>> when the constructor raises (no mnemonic),
\* otherwise <<p>>
ParameterFromLine(line) ==
  IF line.param.name = <<>> THEN <<>> ELSE <<line.param>>

\* the section tags las.py looks for, and the mnemonics and values it reads
TagVersion   == <<"~","V","E","R","S","I","O","N">>
TagWell      == <<"~","W","E","L","L">>
TagParameter == <<"~","P","A","R","A","M","E","T","E","R">>
TagCurve     == <<"~","C","U","R","V","E">>
TagData      == <<"~","A">>

\* the branch of the if / elif chain a line takes before the section flags
\* are looked at (las.py lines 82 to 109); line is not empty
LineKind(line) ==
  LET upper == Upper(line)
  IN  IF line[1] = "#" THEN "comment"
      ELSE IF Contains(TagVersion, upper) THEN "~VERSION"
      ELSE IF Contains(TagWell, upper) THEN "~WELL"
      ELSE IF Contains(TagParameter, upper) THEN "~PARAMETER"
      ELSE IF Contains(TagCurve, upper) THEN "~CURVE"
      ELSE IF Contains(TagData, upper) THEN "~A"
      ELSE "other"

SectionTags == {"~VERSION", "~WELL", "~PARAMETER", "~CURVE", "~A"}

\* the slice that leaves out the line the loop is at
SliceFromNext(ls, k) == SubSeq(ls, k + 1, Len(ls))

\* lines[i:], with k the 1-based position of the line the loop is at
SliceFrom(ls, k) == SubSeq(ls, k, Len(ls))

\* the assignment that keeps the entry a name already has
InsertKeepFirst(values, p) ==
  [n \in DOMAIN values \cup {p.name} |->
     IF n \in DOMAIN values THEN values[n] ELSE p]

\* values[paramater.name] = paramater
Insert(values, p) ==
  [n \in DOMAIN values \cup {p.name} |-> IF n = p.name THEN p ELSE values[n]]

\* the dict with no key
EmptyDict == [n \in {} |-> NoParameter]

\* ------------------------------------------------------------------
\* State
\* ------------------------------------------------------------------

VARIABLES
  lines,                \* f.readlines()
  i,                    \* 1-based position of the loop over lines
  VERSION, WELL, PARAMETER, CURVE, DATA,
  version_parameters, version_values,
  well_parameters, well_values,
  parameter_parameters, parameter_values,
  curve_parameters, curve_values,
  data,                 \* <<>> while the local is unbound, else <<lines[i:]>>
  cleaned_data,         \* the rows of cells
  cleaned_rows_len,
  wrapped,              \* <<>> while the local is unbound, else <<bool>>
  curve_df,             \* the rows of floats
  uwi,                  \* <<>> for None, else <<str>>
  null,                 \* <<>> before it is set, else <<float>>
  pc,                   \* the part of __init__ that runs next
  err                   \* the exception __init__ ended with, "" if none

flags    == <<VERSION, WELL, PARAMETER, CURVE, DATA>>
sections == <<version_parameters, version_values, well_parameters, well_values,
              parameter_parameters, parameter_values, curve_parameters,
              curve_values>>
locals   == <<data, cleaned_data, cleaned_rows_len, wrapped>>
attrs    == <<curve_df, uwi, null>>
vars     == <<lines, i, flags, sections, locals, attrs, pc, err>>

NoError == ""

Running(stage) == pc = stage /\ err = NoError

\* ------------------------------------------------------------------
\* The loop over the lines (las.py lines 80 to 142)
\* ------------------------------------------------------------------

SetFlags(v, w, p, c, d) ==
  /\ VERSION' = v
  /\ WELL' = w
  /\ PARAMETER' = p
  /\ CURVE' = c
  /\ DATA' = d

\* one iteration of the loop
ClassifyLine ==
  /\ Running("loop")
  /\ i <= Len(lines)
  /\ UNCHANGED <<lines, cleaned_data, cleaned_rows_len, wrapped, attrs>>
  /\ LET line == lines[i].text
         kind == IF line = <<>> THEN "empty" ELSE LineKind(line)
         made == ParameterFromLine(lines[i])
         into == IF VERSION THEN "version" ELSE IF WELL THEN "well"
                 ELSE IF PARAMETER THEN "parameter" ELSE IF CURVE THEN "curve"
                 ELSE IF DATA THEN "data" ELSE "none"
     IN
     IF kind = "empty"
     THEN \* line[0] of an empty str
          /\ err' = "IndexError"
          /\ UNCHANGED <<i, flags, sections, data, pc>>
     ELSE IF kind = "comment"
     THEN /\ i' = i + 1
          /\ UNCHANGED <<flags, sections, data, pc, err>>
     ELSE IF kind \in SectionTags
     THEN /\ SetFlags(kind = "~VERSION", kind = "~WELL", kind = "~PARAMETER",
                      kind = "~CURVE", kind = "~A")
          /\ i' = i + 1
          /\ UNCHANGED <<sections, data, pc, err>>
     ELSE IF into = "none"
     THEN /\ i' = i + 1
          /\ UNCHANGED <<flags, sections, data, pc, err>>
     ELSE IF into = "data"
     THEN /\ SetFlags(FALSE, FALSE, FALSE, FALSE, FALSE)
          /\ data' = <<SliceFrom(lines, i)>>
          /\ pc' = "tokenize"
          /\ UNCHANGED <<i, sections, err>>
     ELSE IF made = <<>>
     THEN /\ err' = "MalformedParameterLine"
          /\ UNCHANGED <<i, flags, sections, data, pc>>
     ELSE LET paramater == made[1] IN
          /\ i' = i + 1
          /\ version_parameters' =
               IF into = "version" THEN Append(version_parameters, paramater.name)
               ELSE version_parameters
          /\ version_values' =
               IF into = "version" THEN Insert(version_values, paramater)
               ELSE version_values
          /\ well_parameters' =
               IF into = "well" THEN Append(well_parameters, paramater.name)
               ELSE well_parameters
          /\ well_values' =
               IF into = "well" THEN Insert(well_values, paramater)
               ELSE well_values
          /\ parameter_parameters' =
               IF into = "parameter"
               THEN Append(parameter_parameters, paramater.name)
               ELSE parameter_parameters
          /\ parameter_values' =
               IF into = "parameter" THEN Insert(parameter_values, paramater)
               ELSE parameter_values
          /\ curve_parameters' =
               IF into = "curve" THEN Append(curve_parameters, paramater.name)
               ELSE curve_parameters
          /\ curve_values' =
               IF into = "curve" THEN Insert(curve_values, paramater)
               ELSE curve_values
          /\ UNCHANGED <<flags, data, pc, err>>

\* the loop runs out of lines without a break
EndOfLines ==
  /\ Running("loop")
  /\ i > Len(lines)
  /\ pc' = "tokenize"
  /\ UNCHANGED <<lines, i, flags, sections, locals, attrs, err>>

\* ------------------------------------------------------------------
\* Splitting the data block into rows of tokens (las.py lines 144 to 150)
\* ------------------------------------------------------------------

\* list(filter(lambda x: x != '', row.strip().split(' ')))
CleanedRow(row) == SplitTokens(Strip(row))

Tokenize ==
  /\ Running("tokenize")
  /\ UNCHANGED <<lines, i, flags, sections, data, wrapped, attrs>>
  /\ IF data = <<>>
     THEN \* for row in data: the local was never assigned
          /\ err' = "UnboundLocalError"
          /\ UNCHANGED <<cleaned_data, cleaned_rows_len, pc>>
     ELSE /\ cleaned_data' =
               [k \in 1..Len(data[1]) |-> CleanedRow(data[1][k].text)]
          /\ cleaned_rows_len' =
               [k \in 1..Len(data[1]) |-> Len(CleanedRow(data[1][k].text))]
          /\ pc' = "wrap"
          /\ err' = err

\* ------------------------------------------------------------------
\* The wrap flag (las.py lines 152 to 163)
\* ------------------------------------------------------------------

WRAP == <<"W","R","A","P">>
YES  == <<"Y","E","S">>
NO   == <<"N","O">>

\* the branch that looks at des before right_value
WrapOfDesFirst(values) ==
  IF WRAP \notin DOMAIN values THEN [wrapped |-> <<>>, values |-> values]
  ELSE IF Contains(YES, values[WRAP].value)
  THEN [wrapped |-> <<TRUE>>, values |-> [values EXCEPT ![WRAP].value = NO]]
  ELSE IF Contains(YES, values[WRAP].des)
  THEN [wrapped |-> <<TRUE>>, values |-> [values EXCEPT ![WRAP].des = NO]]
  ELSE IF Contains(YES, values[WRAP].right_value)
  THEN [wrapped |-> <<TRUE>>,
        values |-> [values EXCEPT ![WRAP].right_value = NO]]
  ELSE [wrapped |-> <<FALSE>>, values |-> values]

\* what the statement leaves in the local wrapped and in version_values;
\* without a WRAP key nothing is assigned
WrapOf(values) ==
  IF WRAP \notin DOMAIN values THEN [wrapped |-> <<>>, values |-> values]
  ELSE IF Contains(YES, values[WRAP].value)
  THEN [wrapped |-> <<TRUE>>, values |-> [values EXCEPT ![WRAP].value = NO]]
  ELSE IF Contains(YES, values[WRAP].right_value)
  THEN [wrapped |-> <<TRUE>>,
        values |-> [values EXCEPT ![WRAP].right_value = NO]]
  ELSE IF Contains(YES, values[WRAP].des)
  THEN [wrapped |-> <<TRUE>>, values |-> [values EXCEPT ![WRAP].des = NO]]
  ELSE [wrapped |-> <<FALSE>>, values |-> values]

ResolveWrap ==
  /\ Running("wrap")
  /\ wrapped' = WrapOf(version_values).wrapped
  /\ version_values' = WrapOf(version_values).values
  /\ pc' = "reconstruct"
  /\ UNCHANGED <<lines, i, flags, version_parameters, well_parameters,
                 well_values, parameter_parameters, parameter_values,
                 curve_parameters, curve_values, data, cleaned_data,
                 cleaned_rows_len, attrs, err>>

\* ------------------------------------------------------------------
\* Rebuilding wrapped rows (las.py lines 165 to 194)
\* ------------------------------------------------------------------

\* the cell pandas fills a short row with (None); a token is never empty
NoneCell == <<>>

\* np.unique(rows_len_arr), as a set
UniqueLengths(lens) == {lens[k] : k \in 1..Len(lens)}

\* np.where(rows_len_arr == 1)[0]: the 0-based positions, ascending
SingleTokenIndexes(lens) ==
  SelectSeq([k \in 1..Len(lens) |-> k - 1], LAMBDA p : lens[p + 1] = 1)

\* s[::2]
EverySecond(s) == [j \in 1..((Len(s) + 1) \div 2) |-> s[2 * j - 1]]

\* the number of columns of pd.DataFrame(cleaned_data)
FrameWidth(rows) ==
  IF rows = <<>> THEN 0
  ELSE CHOOSE w \in {Len(rows[k]) : k \in 1..Len(rows)} :
         \A k \in 1..Len(rows) : Len(rows[k]) <= w

\* data_df.iloc[p]: the row at 0-based position p, filled up with None
FrameRow(rows, p) ==
  rows[p + 1] \o [c \in 1..(FrameWidth(rows) - Len(rows[p + 1])) |-> NoneCell]

\* np.vstack(np.take(data_arr, depth_indexes)) and the loop that
\* concatenates data_df.iloc[depth_indexes + d] for d in
\* range(depth_indexes[0] + 1, depth_indexes[1])
Stitch(rows, depth_indexes) ==
  LET n  == Len(rows)
      k  == Len(depth_indexes)
      w  == FrameWidth(rows)
      lo == depth_indexes[1] + 1
      hi == depth_indexes[2] - 1
      m  == IF hi >= lo THEN hi - lo + 1 ELSE 0
  IN  IF k = 0 THEN [err |-> "EmptyStackError", rows |-> <<>>]
      ELSE IF k < 2 THEN [err |-> "IndexError", rows |-> <<>>]
      ELSE IF \E d \in lo..hi : \E j \in 1..k : depth_indexes[j] + d >= n
      THEN [err |-> "IndexError", rows |-> <<>>]
      ELSE [err  |-> NoError,
            rows |->
              [j \in 1..k |->
                 [x \in 1..(1 + m * w) |->
                    IF x = 1 THEN rows[depth_indexes[j] + 1][1]
                    ELSE FrameRow(rows, depth_indexes[j] + lo + ((x - 2) \div w))
                           [((x - 2) % w) + 1]]]]

\* np.delete of the columns whose cell in the first row is None
DropNoneColumns(rows) ==
  LET cols == SelectSeq([c \in 1..Len(rows[1]) |-> c],
                        LAMBDA c : rows[1][c] # NoneCell)
  IN  [j \in 1..Len(rows) |-> [x \in 1..Len(cols) |-> rows[j][cols[x]]]]

\* the body of "if wrapped:"
Rewrap(rows, lens) ==
  LET unique_lengths == UniqueLengths(lens)
      made == IF Cardinality(unique_lengths) = 3
              THEN Stitch(rows, SingleTokenIndexes(lens))
              ELSE IF Cardinality(unique_lengths) = 2
              THEN Stitch(rows, EverySecond(SingleTokenIndexes(lens)))
              ELSE [err |-> "InconsistentWrapLayout", rows |-> <<>>]
  IN  IF made.err # NoError THEN made
      ELSE [err |-> NoError, rows |-> DropNoneColumns(made.rows)]

Reconstruct ==
  /\ Running("reconstruct")
  /\ UNCHANGED <<lines, i, flags, sections, data, cleaned_rows_len, wrapped,
                 attrs>>
  /\ IF wrapped = <<>>
     THEN \* if wrapped: the local was never assigned
          /\ err' = "UnboundLocalError"
          /\ UNCHANGED <<cleaned_data, pc>>
     ELSE IF ~wrapped[1]
     THEN /\ pc' = "table"
          /\ UNCHANGED <<cleaned_data, err>>
     ELSE IF Rewrap(cleaned_data, cleaned_rows_len).err # NoError
     THEN /\ err' = Rewrap(cleaned_data, cleaned_rows_len).err
          /\ UNCHANGED <<cleaned_data, pc>>
     ELSE /\ cleaned_data' = Rewrap(cleaned_data, cleaned_rows_len).rows
          /\ pc' = "table"
          /\ err' = err

\* ------------------------------------------------------------------
\* The table and its cast to float (las.py lines 196 to 199)
\* ------------------------------------------------------------------

\* pd.DataFrame(cleaned_data, columns = curve_parameters) and astype(float)
\* on every column
TableOf(rows, columns) ==
  LET n == Len(columns)
      cell(j, c) == IF c > Len(rows[j]) THEN NoneCell ELSE rows[j][c]
  IN  IF rows # <<>> /\ FrameWidth(rows) # n
      THEN [err |-> "ShapeError", df |-> <<>>]
      ELSE IF \E j \in 1..Len(rows) : \E c \in 1..n :
                cell(j, c) # NoneCell /\ Float(cell(j, c)) = <<>>
      THEN [err |-> "CurveCastError", df |-> <<>>]
      ELSE [err |-> NoError,
            df  |-> [j \in 1..Len(rows) |->
                       [c \in 1..n |->
                          IF cell(j, c) = NoneCell THEN NaN
                          ELSE Float(cell(j, c))[1]]]]

BuildTable ==
  /\ Running("table")
  /\ UNCHANGED <<lines, i, flags, sections, locals, uwi, null>>
  /\ IF TableOf(cleaned_data, curve_parameters).err # NoError
     THEN /\ err' = TableOf(cleaned_data, curve_parameters).err
          /\ UNCHANGED <<curve_df, pc>>
     ELSE /\ curve_df' = TableOf(cleaned_data, curve_parameters).df
          /\ pc' = "uwi"
          /\ err' = err

\* ------------------------------------------------------------------
\* The unique well identifier (las.py lines 202 to 223)
\* ------------------------------------------------------------------

NameUWI   == <<"U","W","I">>
NameUwi   == <<"u","w","i">>
NameAPI   == <<"A","P","I">>
NameApi   == <<"a","p","i">>
WordWELL   == <<"W","E","L","L">>
WordUNIQUE == <<"U","N","I","Q","U","E">>

\* s in self.well_parameters
InList(s, names) == \E k \in 1..Len(names) : names[k] = s

\* uwi_param: <<>> for None
UwiParam(names, values) ==
  IF InList(NameUWI, names) THEN <<values[NameUWI]>>
  ELSE IF InList(NameUwi, names) THEN <<values[NameUwi]>>
  ELSE IF InList(NameAPI, names) THEN <<values[NameAPI]>>
  ELSE IF InList(NameApi, names) THEN <<values[NameApi]>>
  ELSE <<>>

\* 'WELL' not in s.upper() and 'UNIQUE' not in s.upper() and len(s) > 0
Usable(s) ==
  /\ ~Contains(WordWELL, Upper(s))
  /\ ~Contains(WordUNIQUE, Upper(s))
  /\ Len(s) > 0

\* the test that forgets the description
UwiFromSkipDes(p) ==
  IF Usable(p.value) THEN <<RemoveChar(p.value, "-")>>
  ELSE IF Usable(p.right_value) THEN <<RemoveChar(p.right_value, "-")>>
  ELSE <<>>

\* self.uwi for a uwi_param that is not None
UwiFrom(p) ==
  IF Usable(p.value) THEN <<RemoveChar(p.value, "-")>>
  ELSE IF Usable(p.des) THEN <<RemoveChar(p.des, "-")>>
  ELSE IF Usable(p.right_value) THEN <<RemoveChar(p.right_value, "-")>>
  ELSE <<>>

UwiOf(names, values) ==
  IF UwiParam(names, values) = <<>> THEN <<>>
  ELSE UwiFrom(UwiParam(names, values)[1])

ResolveUwi ==
  /\ Running("uwi")
  /\ uwi' = UwiOf(well_parameters, well_values)
  /\ pc' = "null"
  /\ UNCHANGED <<lines, i, flags, sections, locals, curve_df, null, err>>

\* ------------------------------------------------------------------
\* The null value (las.py lines 225 to 245)
\* ------------------------------------------------------------------

NameNULL == <<"N","U","L","L">>
NameNull == <<"n","u","l","l">>

\* float(s) where the result is assigned to self.null
NullCast(s) ==
  IF Float(s) = <<>> THEN [err |-> "FloatValueError", null |-> <<>>]
  ELSE [err |-> NoError, null |-> Float(s)]

\* the branch under one of the two mnemonics
NullFrom(p) ==
  IF Len(p.value) > 0 THEN NullCast(p.value)
  ELSE IF Len(p.right_value) > 0 THEN NullCast(p.right_value)
  ELSE [err |-> "MissingNullValue", null |-> <<>>]

\* the lookup that goes on to 'null' when 'NULL' holds nothing
NullOfFallThrough(names, values) ==
  IF InList(NameNULL, names) /\ NullFrom(values[NameNULL]).err # "MissingNullValue"
  THEN NullFrom(values[NameNULL])
  ELSE IF InList(NameNull, names) THEN NullFrom(values[NameNull])
  ELSE [err |-> "MissingNullValue", null |-> <<>>]

\* the lookup that settles for a default when no mnemonic is declared
NullOfDefault(names, values) ==
  IF InList(NameNULL, names) THEN NullFrom(values[NameNULL])
  ELSE IF InList(NameNull, names) THEN NullFrom(values[NameNull])
  ELSE NullCast(<<"-","9","9","9",".","2","5">>)

NullOf(names, values) ==
  IF InList(NameNULL, names) THEN NullFrom(values[NameNULL])
  ELSE IF InList(NameNull, names) THEN NullFrom(values[NameNull])
  ELSE [err |-> "MissingNullValue", null |-> <<>>]

ResolveNull ==
  /\ Running("null")
  /\ UNCHANGED <<lines, i, flags, sections, locals, curve_df, uwi>>
  /\ IF NullOf(well_parameters, well_values).err # NoError
     THEN /\ err' = NullOf(well_parameters, well_values).err
          /\ UNCHANGED <<null, pc>>
     ELSE /\ null' = NullOf(well_parameters, well_values).null
          /\ pc' = "precondition"
          /\ err' = err

\* self.precondition(), a method of the parent class (las.py line 247)
Precondition ==
  /\ Running("precondition")
  /\ pc' = "done"
  /\ UNCHANGED <<lines, i, flags, sections, locals, attrs, err>>


\* ------------------------------------------------------------------
\* The files read
\* ------------------------------------------------------------------

\* all sequences over S of length at most n
SeqsUpTo(S, n) == UNION {[1..m -> S] : m \in 0..n}

\* a line that is no header declaration: a comment, a tag, a data row
TextLine(text) == Line(text, NoParameter)

\* a header line "MNEM. VALUE : DESCRIPTION" and the fields read from it
HeaderLine(name, value, des, right_value) ==
  Line(name \o <<"."," ">> \o value \o <<" ",":"," ">> \o des \o <<"\n">>,
       Parameter(name, <<>>, value, des, right_value))

LineVersion   == TextLine(<<"~","V","e","r","s","i","o","n","\n">>)
LineWell      == TextLine(<<"~","W","e","l","l","\n">>)
LineParameter == TextLine(<<"~","P","a","r","a","m","e","t","e","r","\n">>)
LineCurve     == TextLine(<<"~","C","u","r","v","e","\n">>)
LineAscii     == TextLine(<<"~","A","\n">>)
LineComment   == TextLine(<<"#","~","A","\n">>)
LineBlank     == TextLine(<<"\n">>)

LineWrapNo  == HeaderLine(WRAP, NO, <<>>, <<>>)
LineWrapYes == HeaderLine(WRAP, YES, <<>>, <<>>)
LineVers    == HeaderLine(<<"V","E","R","S">>, <<"2",".","0">>, <<>>, <<>>)
LineNull    == HeaderLine(NameNULL, <<"-","9","9","9",".","2","5">>, <<>>, <<>>)
LineDept    == HeaderLine(<<"D","E","P","T">>, <<>>, <<>>, <<>>)

\* the classifier family: every file of at most MaxLines lines over these
ClassifierLines ==
  { LineComment, LineVersion, LineWell, LineParameter, LineCurve, LineAscii,
    LineBlank, HeaderLine(<<"X">>, <<"1">>, <<>>, <<>>),
    HeaderLine(<<"X">>, <<"2">>, <<>>, <<>>), HeaderLine(<<"Y">>, <<"3">>, <<>>, <<>>) }

FilesClassifier == SeqsUpTo(ClassifierLines, MaxLines)

\* the null family: NULL and null declarations of every shape
NullTexts == { <<>>, <<"-","9","9","9",".","2","5">>, <<"x">> }

NullLines(name, desTexts) ==
  { HeaderLine(name, v, d, r) : v \in NullTexts, d \in desTexts, r \in NullTexts }

NullDeclarations ==
  {<<>>}
  \cup {<<a>> : a \in NullLines(NameNULL, {<<>>, <<"-","9">>})}
  \cup {<<a>> : a \in NullLines(NameNull, {<<>>, <<"-","9">>})}
  \cup {<<a, b>> : a \in NullLines(NameNULL, {<<>>}), b \in NullLines(NameNull, {<<>>})}
  \cup {<<b, a>> : a \in NullLines(NameNULL, {<<>>}), b \in NullLines(NameNull, {<<>>})}

FilesNull ==
  { <<LineVersion, LineWrapNo, LineWell>> \o decl
      \o <<LineCurve, LineDept, LineAscii, TextLine(<<"1",".","5","\n">>)>> :
    decl \in NullDeclarations }

\* the identifier family: UWI and API declarations of every shape
UwiTexts == { <<>>, <<"4","2","-","7">>, <<"W","e","l","l">>, <<"u","n","i","q","u","e">>, <<"W","E","-","L","L">>, <<"-">> }

UwiNames == { NameUWI, NameUwi, NameAPI, NameApi }

UwiDeclarations ==
  {<<>>}
  \cup {<<HeaderLine(n, v, d, r)>> :
          n \in {NameUWI, NameApi}, v \in UwiTexts, d \in UwiTexts, r \in UwiTexts}
  \cup {<<HeaderLine(n1, v1, <<>>, <<>>), HeaderLine(n2, v2, <<>>, <<>>)>> :
          n1 \in UwiNames, n2 \in UwiNames,
          v1 \in {<<>>, <<"4","2","-","7">>, <<"W","e","l","l">>}, v2 \in {<<>>, <<"7","-","4","2">>, <<"W","e","l","l">>}}

FilesUwi ==
  { <<LineVersion, LineWrapNo, LineWell, LineNull>> \o decl
      \o <<LineCurve, LineDept, LineAscii, TextLine(<<"1",".","5","\n">>)>> :
    decl \in UwiDeclarations }

\* the wrap-flag family: WRAP declarations of every shape
WrapTexts == { <<>>, NO, YES, <<"E","Y","E","S">> }

FilesWrap ==
  { <<LineVersion, LineVers, HeaderLine(WRAP, v, d, r), LineWell, LineNull,
      LineCurve, LineDept, LineAscii, TextLine(<<"1",".","5","\n">>)>> :
    v \in WrapTexts, d \in WrapTexts, r \in WrapTexts }

\* the wrapped-data family: data blocks of at most MaxData lines of one to
\* three tokens; token c of data line k reads "k.c"
DigitOf == [n \in 0..9 |->
  CASE n = 0 -> "0" [] n = 1 -> "1" [] n = 2 -> "2" [] n = 3 -> "3"
    [] n = 4 -> "4" [] n = 5 -> "5" [] n = 6 -> "6" [] n = 7 -> "7"
    [] n = 8 -> "8" [] n = 9 -> "9"]

DataToken(k, c) == <<DigitOf[k], ".", DigitOf[c]>>

DataLine(k, count) ==
  TextLine(CASE count = 1 -> DataToken(k, 1) \o <<"\n">>
             [] count = 2 -> <<" ">> \o DataToken(k, 1) \o <<" ">> \o DataToken(k, 2) \o <<"\n">>
             [] count = 3 -> DataToken(k, 1) \o <<" "," ">> \o DataToken(k, 2) \o <<" ">>
                               \o DataToken(k, 3) \o <<" ","\n">>)

DataBlocks ==
  { [k \in 1..Len(counts) |-> DataLine(k, counts[k])] :
    counts \in SeqsUpTo(1..3, MaxData) }

CurveLines ==
  <<LineDept, HeaderLine(<<"G","R">>, <<>>, <<>>, <<>>), HeaderLine(<<"N","P","H","I">>, <<>>, <<>>, <<>>),
    HeaderLine(<<"R","H","O","B">>, <<>>, <<>>, <<>>), HeaderLine(<<"D","T">>, <<>>, <<>>, <<>>),
    HeaderLine(<<"S","P">>, <<>>, <<>>, <<>>)>>

FilesWrapped ==
  { <<LineVersion, LineWrapYes, LineWell, LineNull, LineCurve>> \o CurveLines
      \o <<LineAscii>> \o block :
    block \in DataBlocks }

\* the whole-file family: every combination of a version section, a well
\* section and an end of file
VersionParts == { <<>>, <<LineVersion, LineWrapNo>>, <<LineVersion, LineWrapYes>> }

WellParts ==
  { <<LineWell>>, <<LineWell, LineNull>>,
    <<LineWell, HeaderLine(NameNULL, <<>>, <<"-","9","9","9",".","2","5">>, <<>>)>>,
    <<LineWell, LineBlank>> }

DataParts ==
  { <<>>, <<LineAscii>>, <<LineAscii, TextLine(<<"1",".","5","\n">>)>>,
    <<LineAscii, TextLine(<<"a","b","c","\n">>)>>, <<LineAscii, TextLine(<<"1"," ","2","\n">>)>>,
    <<LineAscii, DataLine(1, 1), DataLine(2, 1), DataLine(3, 1), DataLine(4, 1)>>,
    <<LineAscii, DataLine(1, 1), DataLine(2, 2), DataLine(3, 3)>>,
    <<LineAscii, DataLine(1, 1), DataLine(2, 2), DataLine(3, 1), DataLine(4, 2)>>,
    <<LineAscii, DataLine(1, 1), TextLine(<<"x","\n">>), DataLine(3, 1), TextLine(<<"y","\n">>)>> }

FilesWhole ==
  { v \o w \o <<LineParameter, HeaderLine(<<"B","H","T">>, <<"3","5",".","5">>, <<>>, <<>>),
                LineCurve, LineDept>> \o d :
    v \in VersionParts, w \in WellParts, d \in DataParts }

Files ==
  FilesClassifier \cup FilesNull \cup FilesUwi \cup FilesWrap
    \cup FilesWrapped \cup FilesWhole

\* ------------------------------------------------------------------
\* The specification
\* ------------------------------------------------------------------

\* the state when the loop over the lines starts (las.py lines 67 to 79):
\* the parent's __init__ has made the sections empty
Init ==
  /\ lines \in Files
  /\ i = 1
  /\ VERSION = FALSE
  /\ WELL = FALSE
  /\ PARAMETER = FALSE
  /\ CURVE = FALSE
  /\ DATA = FALSE
  /\ version_parameters = <<>>
  /\ version_values = EmptyDict
  /\ well_parameters = <<>>
  /\ well_values = EmptyDict
  /\ parameter_parameters = <<>>
  /\ parameter_values = EmptyDict
  /\ curve_parameters = <<>>
  /\ curve_values = EmptyDict
  /\ data = <<>>
  /\ cleaned_data = <<>>
  /\ cleaned_rows_len = <<>>
  /\ wrapped = <<>>
  /\ curve_df = <<>>
  /\ uwi = <<>>
  /\ null = <<>>
  /\ pc = "loop"
  /\ err = NoError

Next ==
  \/ ClassifyLine
  \/ EndOfLines
  \/ Tokenize
  \/ ResolveWrap
  \/ Reconstruct
  \/ BuildTable
  \/ ResolveUwi
  \/ ResolveNull
  \/ Precondition

Spec == Init /\ [][Next]_vars


\* ------------------------------------------------------------------
\* Properties
\* ------------------------------------------------------------------

\* how far __init__ got
LoopEnded == pc # "loop"

ReconstructActed ==
  \/ pc \in {"table", "uwi", "null", "precondition", "done"}
  \/ pc = "reconstruct" /\ err # NoError

UwiActed == pc \in {"null", "precondition", "done"}

NullActed ==
  \/ pc \in {"precondition", "done"}
  \/ pc = "null" /\ err # NoError

\* what each line is, read off its text alone
RECURSIVE KindsOf(_)
KindsOf(ls) ==
  IF ls = <<>> THEN <<>> ELSE <<LineKind(Head(ls).text)>> \o KindsOf(Tail(ls))

Kinds == KindsOf(lines)

Least(S) == CHOOSE k \in S : \A m \in S : k <= m

Greatest(S) == CHOOSE k \in S : \A m \in S : m <= k

\* the section tag nearest before line k, "none" if there is none
TagBefore(kinds, k) ==
  LET tags == {t \in 1..(k - 1) : kinds[t] \in SectionTags}
  IN  IF tags = {} THEN "none" ELSE kinds[Greatest(tags)]

\* the '~A' tag lines of the file
DataTagLines(kinds) == {t \in 1..Len(kinds) : kinds[t] = "~A"}

\* the lines that are neither comment nor tag and follow a '~A' tag with
\* only comments (or further '~A' tags) in between
DataStarts(kinds) ==
  {k \in 1..Len(kinds) : kinds[k] = "other" /\ TagBefore(kinds, k) = "~A"}

\* C1 as stated: the data block the loop produces is exactly the lines
\* after the first '~A' tag line, beginning with the line right after the
\* tag, where the loop stopped.
C1_DataIsEverythingAfterTag ==
  LET tagged == DataTagLines(Kinds)
  IN  (LoopEnded /\ data # <<>>) =>
         /\ tagged # {}
         /\ data = <<SubSeq(lines, Least(tagged) + 1, Len(lines))>>
         /\ i = Least(tagged) + 1

\* C1 as amended: when the loop has ended, the data block is the rest of
\* the file from the first line that is neither comment nor tag and whose
\* nearest preceding tag is '~A' (the loop stopped at that line); if the
\* file has no such line, no data block is assigned.  While the loop runs
\* no data block is assigned.
C1_DataStartsAtFirstDataLine ==
  /\ pc = "loop" => data = <<>>
  /\ LoopEnded =>
       LET starts == DataStarts(Kinds)
       IN  IF starts = {} THEN data = <<>> /\ i = Len(lines) + 1
           ELSE /\ data = <<SubSeq(lines, Least(starts), Len(lines))>>
                /\ i = Least(starts)

\* a data block found past a comment line that follows the '~A' tag
C1_Witness ==
  /\ LoopEnded
  /\ data # <<>>
  /\ i > 2
  /\ LineKind(lines[i - 1].text) = "comment"
  /\ LineKind(lines[i - 2].text) = "~A"
  /\ Len(data[1]) = Len(lines) - i + 1

\* the parameter lines of one section among the lines the loop has consumed
SectionLines(kinds, tag) ==
  SelectSeq([k \in 1..(i - 1) |-> k],
            LAMBDA k : kinds[k] = "other" /\ TagBefore(kinds, k) = tag)

SectionFollowsLines(kinds, tag, names, values) ==
  LET at == SectionLines(kinds, tag)
  IN  /\ names = [j \in 1..Len(at) |-> lines[at[j]].param.name]
      /\ DOMAIN values = {names[j] : j \in 1..Len(names)}
      /\ \A j \in 1..Len(at) :
           (\A m \in (j + 1)..Len(at) : names[m] # names[j])
             => values[names[j]] = lines[at[j]].param

\* C2: each section's name sequence lists the parameter lines consumed in
\* that section in file order, its mapping has exactly those names as keys
\* and holds for each name the Parameter of its last line; a line changes
\* no section but its own.  (The version mapping is compared up to the
\* statement that rewrites WRAP.)
C2_SectionsFollowLines ==
  LET kinds == KindsOf(SubSeq(lines, 1, i - 1))
  IN  /\ pc \in {"loop", "tokenize", "wrap"} =>
           SectionFollowsLines(kinds, "~VERSION",
                               version_parameters, version_values)
      /\ SectionFollowsLines(kinds, "~WELL",
                             well_parameters, well_values)
      /\ SectionFollowsLines(kinds, "~PARAMETER",
                             parameter_parameters, parameter_values)
      /\ SectionFollowsLines(kinds, "~CURVE",
                             curve_parameters, curve_values)

\* a well section in which a name was declared twice and the second
\* declaration is the one kept
C2_Witness ==
  /\ pc = "tokenize"
  /\ Len(well_parameters) = 2
  /\ well_parameters[1] = well_parameters[2]
  /\ well_values[well_parameters[1]].value = <<"2">>
  /\ version_parameters = <<>>

\* C3: the null value comes from 'NULL', or from 'null' only if 'NULL' is
\* not declared; from its value if that is not empty, else from its
\* right_value if that is not empty, cast to float.  MissingNullValue is
\* raised exactly when neither is declared or the one found has both fields
\* empty.
C3_NullResolution ==
  NullActed =>
    LET found == IF NameNULL \in DOMAIN well_values THEN <<well_values[NameNULL]>>
                 ELSE IF NameNull \in DOMAIN well_values
                 THEN <<well_values[NameNull]>>
                 ELSE <<>>
        empty == found = <<>>
                 \/ (found[1].value = <<>> /\ found[1].right_value = <<>>)
        text  == IF found[1].value # <<>> THEN found[1].value
                 ELSE found[1].right_value
    IN  /\ err = "MissingNullValue" <=> empty
        /\ ~empty =>
             IF Float(text) = <<>> THEN err = "FloatValueError"
             ELSE err = NoError /\ null = Float(text)

\* an empty 'NULL' next to a usable 'null': MissingNullValue all the same
C3_Witness ==
  /\ NullActed
  /\ err = "MissingNullValue"
  /\ NameNULL \in DOMAIN well_values
  /\ NameNull \in DOMAIN well_values
  /\ well_values[NameNull].value = <<"-","9","9","9",".","2","5">>

\* C4: the identifier comes from the first declared of UWI, uwi, API, api
\* alone; from the first of its value, des, right_value that is not empty
\* and holds neither WELL nor UNIQUE in upper case, with the hyphens
\* removed; it is None if nothing is declared or nothing is accepted.
C4_UwiResolution ==
  UwiActed =>
    LET order   == <<NameUWI, NameUwi, NameAPI, NameApi>>
        present == {k \in 1..4 : order[k] \in DOMAIN well_values}
        p       == well_values[order[Least(present)]]
        fields  == <<p.value, p.des, p.right_value>>
        good    == {k \in 1..3 :
                      /\ fields[k] # <<>>
                      /\ ~Contains(WordWELL, Upper(fields[k]))
                      /\ ~Contains(WordUNIQUE, Upper(fields[k]))}
    IN  IF present = {} THEN uwi = <<>>
        ELSE IF good = {} THEN uwi = <<>>
        ELSE uwi = <<SelectSeq(fields[Least(good)], LAMBDA c : c # "-")>>

\* 'UWI' holds a label and 'API' a usable value: no identifier
C4_Witness ==
  /\ UwiActed
  /\ uwi = <<>>
  /\ NameUWI \in DOMAIN well_values
  /\ NameAPI \in DOMAIN well_values
  /\ well_values[NameUWI].value = <<"W","e","l","l">>
  /\ well_values[NameAPI].value = <<"7","-","4","2">>

\* C5 as stated: resolving again, with the identifier produced as the
\* value of the parameter, gives the same identifier.
C5_UwiIdempotent ==
  (UwiActed /\ uwi # <<>>) =>
     UwiFrom(Parameter(NameUWI, <<>>, uwi[1], <<>>, <<>>)) = uwi

\* the rows of tokens the data block was split into
DataTokens == [k \in 1..Len(data[1]) |-> CleanedRow(data[1][k].text)]

\* the 1-based positions of the single-token lines
SingleTokenLines ==
  SelectSeq([k \in 1..Len(DataTokens) |-> k], LAMBDA k : Len(DataTokens[k]) = 1)

RECURSIVE Flatten(_)
Flatten(ss) == IF ss = <<>> THEN <<>> ELSE Head(ss) \o Flatten(Tail(ss))

\* the depth token at marker j of markers, followed by the tokens of the
\* lines up to the next marker (or the end of the block)
LogicalRow(markers, j) ==
  LET from == markers[j]
      to   == IF j < Len(markers) THEN markers[j + 1] - 1 ELSE Len(DataTokens)
  IN  DataTokens[from] \o Flatten(SubSeq(DataTokens, from + 1, to))

\* C6 as stated: with three distinct token counts the rebuilt rows are one
\* per single-token line, each the depth token and the tokens of the lines
\* that follow it.
C6_ThreeCountsRows ==
  (ReconstructActed /\ wrapped = <<TRUE>>
     /\ Cardinality(UniqueLengths(cleaned_rows_len)) = 3) =>
     /\ err = NoError
     /\ cleaned_data =
          [j \in 1..Len(SingleTokenLines) |-> LogicalRow(SingleTokenLines, j)]

\* C7 as stated: with two distinct token counts the rebuilt rows are one
\* per second single-token line, starting from the first.
C7_TwoCountsRows ==
  (ReconstructActed /\ wrapped = <<TRUE>>
     /\ Cardinality(UniqueLengths(cleaned_rows_len)) = 2) =>
     /\ err = NoError
     /\ Len(cleaned_data) = (Len(SingleTokenLines) + 1) \div 2
     /\ \A j \in 1..Len(cleaned_data) :
          cleaned_data[j][1] = DataTokens[SingleTokenLines[2 * j - 1]][1]

DeclaredErrors ==
  {"MalformedParameterLine", "InconsistentWrapLayout", "CurveCastError",
   "MissingNullValue"}

NoNullDeclared ==
  NameNULL \notin DOMAIN well_values /\ NameNull \notin DOMAIN well_values

\* C8 as stated, on the runs that end with one of the declared errors: a
\* file whose well section declares neither 'NULL' nor 'null' fails with
\* MissingNullValue, whatever the rest of the file holds.
C8_NoNullEndsWithMissingNullValue ==
  (LoopEnded /\ NoNullDeclared /\ err \in DeclaredErrors) =>
     err = "MissingNullValue"

\* C8 as amended: such a file never gets past the null resolution, and if
\* it reaches the null resolution it fails there with MissingNullValue
\* (the steps before it may have failed first, with their own error).
C8_NoNullNeverReturns ==
  /\ pc \in {"precondition", "done"} => ~NoNullDeclared
  /\ (NullActed /\ NoNullDeclared) => err = "MissingNullValue" /\ null = <<>>

\* a file without the declaration that got as far as the null resolution
C8_Witness ==
  /\ NoNullDeclared
  /\ pc = "null"
  /\ err = "MissingNullValue"
  /\ curve_df # <<>>

\* C9 as stated: __init__ ends with a document or with one of the four
\* declared errors.
C9_OnlyDeclaredErrors == err = NoError \/ err \in DeclaredErrors

\* C10: the statement that sets the wrap flag sets it to True exactly when
\* WRAP is declared and one of value, right_value, des holds 'YES'; it then
\* writes 'NO' over the first of these three that holds 'YES' and changes
\* nothing else.
C10_WrapFlag ==
  [][(pc = "wrap" /\ pc' = "reconstruct") =>
       LET has    == WRAP \in DOMAIN version_values
           before == version_values[WRAP]
           after  == version_values'[WRAP]
           old    == <<before.value, before.right_value, before.des>>
           new    == <<after.value, after.right_value, after.des>>
           hits   == {k \in 1..3 : Contains(YES, old[k])}
       IN  /\ wrapped' = <<TRUE>> <=> (has /\ hits # {})
           /\ has => wrapped' # <<>>
           /\ DOMAIN version_values' = DOMAIN version_values
           /\ \A n \in DOMAIN version_values :
                n # WRAP => version_values'[n] = version_values[n]
           /\ has =>
                /\ after.name = before.name
                /\ after.unit = before.unit
                /\ \A k \in 1..3 :
                     new[k] = IF hits # {} /\ k = Least(hits) THEN NO ELSE old[k]
           /\ UNCHANGED <<version_parameters, well_parameters, well_values,
                          parameter_parameters, parameter_values,
                          curve_parameters, curve_values>>
    ]_vars

\* 'YES' in right_value and in des: right_value is rewritten, des is kept
C10_Witness ==
  /\ pc = "reconstruct"
  /\ wrapped = <<TRUE>>
  /\ version_values[WRAP].value = <<>>
  /\ version_values[WRAP].right_value = NO
  /\ version_values[WRAP].des = YES

====
